---- MODULE Spec2Model ----
(***************************************************************************)
(* gitbackup: main() of src/gitbackup.py as a sequential state machine.    *)
(* One action per step of main() between two blocking calls (secret store, *)
(* source listing, each destination call, the prompt, the pacing sleep).   *)
(* The destination server (Gitea) and the source listing (GitHub) are the  *)
(* environment: each call draws the server's HTTP response from the set of *)
(* responses the server can give in its current state, and the response    *)
(* goes through handle_response exactly as the decorator does.             *)
(* Strings the code inspects character by character (the positional        *)
(* argument, repository names, regular expressions) are sequences of       *)
(* one-character strings.                                                  *)
(***************************************************************************)
EXTENDS Integers, Sequences, FiniteSets, TLC

VARIABLES
    pc,         \* position in main(): the next step to run, or a terminal
    run,        \* 1 for the first invocation of the tool, 2 for the re-run
    firstRun,   \* how the first invocation ended and how many migrations it requested
    args,       \* argparse namespace (line 103)
    secret,     \* whether the secret store holds a 'gitbackup' item
    source,     \* the source account's repositories, as the listing returns them
    dest,       \* destination server: [org: does gitea_org exist, repos: names under it]
    dest0,      \* the destination as it was when this invocation started
    user,       \* line 131
    repolist,   \* line 135
    index,      \* position of the for loop of line 154 (1-based)
    result,     \* the last value returned by a destination call
    answer,     \* what the user typed at the confirmation prompt, if it was shown
    last,       \* the last destination call: its raw response and its outcome
    log         \* the calls this invocation has issued, in order

vars == <<pc, run, firstRun, args, secret, source, dest, dest0, user,
          repolist, index, result, answer, last, log>>

-----------------------------------------------------------------------------
(* Bounds *)

MaxRepos == 2      \* longest source listing
MaxTail == 3       \* longest text after the scheme prefix of the positional argument

-----------------------------------------------------------------------------
(* Strings *)

RECURSIVE SeqsUpTo(_, _)
SeqsUpTo(S, n) ==
    IF n = 0 THEN {<<>>}
    ELSE LET shorter == SeqsUpTo(S, n - 1)
         IN  shorter \cup {Append(s, c) : s \in {t \in shorter : Len(t) = n - 1}, c \in S}

StartsWith(s, p) == Len(s) >= Len(p) /\ SubSeq(s, 1, Len(p)) = p

Http == <<"h", "t", "t", "p", ":", "/", "/">>
Https == <<"h", "t", "t", "p", "s", ":", "/", "/">>

\* str.split(sep): the pieces between the separators, empty pieces kept
RECURSIVE SplitFrom(_, _, _, _)
SplitFrom(s, sep, i, piece) ==
    IF i > Len(s) THEN <<piece>>
    ELSE IF s[i] = sep THEN <<piece>> \o SplitFrom(s, sep, i + 1, <<>>)
    ELSE SplitFrom(s, sep, i + 1, Append(piece, s[i]))

Split(s, sep) == SplitFrom(s, sep, 1, <<>>)

\* faulty variant of get_user_from_url: url.split('/')[-1]
get_user_from_url_last(url) ==
    LET parts == Split(url, "/") IN parts[Len(parts)]

\* line 18: url.split('/')[-2]
get_user_from_url(url) ==
    LET parts == Split(url, "/") IN parts[Len(parts) - 1]

\* line 21: re.match(r'^https?://', url) is not None
is_url(url) == StartsWith(url, Http) \/ StartsWith(url, Https)

\* lines 23-27
string_or_url(string) ==
    IF is_url(string) THEN get_user_from_url(string) ELSE string

-----------------------------------------------------------------------------
(* Regular expressions: the subset with literals, '.', a leading '^' and a *)
(* trailing '$'; re.match anchors the pattern at the start of the string.  *)

RECURSIVE MatchHere(_, _)
MatchHere(p, s) ==
    IF p = <<>> THEN TRUE
    ELSE IF Head(p) = "$" /\ Len(p) = 1 THEN s = <<>>
    ELSE IF s = <<>> THEN FALSE
    ELSE IF Head(p) = "." \/ Head(p) = Head(s) THEN MatchHere(Tail(p), Tail(s))
    ELSE FALSE

\* re.match(pattern, string) is not None (lines 157, 160)
re_match(p, s) ==
    IF p # <<>> /\ Head(p) = "^" THEN MatchHere(Tail(p), s) ELSE MatchHere(p, s)

-----------------------------------------------------------------------------
(* Inputs *)

None == {}
Some(x) == {x}
The(o) == CHOOSE x \in o : TRUE

Alice == <<"a", "l">>

R1 == <<"r", "1">>
R2 == <<"r", "2">>
R10 == <<"r", "1", "0">>
Names == {R1, R2, R10}

Patterns == { <<"^", "r", "1", "$">>, <<"r", "1">>, <<".", "2">> }

\* the two filters are in one mutually exclusive argparse group (lines 99-101)
FilterChoices ==
    {[include |-> None, exclude |-> None]}
    \cup {[include |-> Some(p), exclude |-> None] : p \in Patterns}
    \cup {[include |-> None, exclude |-> Some(p)] : p \in Patterns}

Backup == <<"b", "k">>
OrgChoices == {None, Some(Backup)}

ArgChoices(repositories) ==
    {[repository |-> r, yes |-> y, include |-> f.include, exclude |-> f.exclude,
      organization |-> o] :
        r \in repositories, y \in BOOLEAN, f \in FilterChoices, o \in OrgChoices}

\* the listing of one account: repository names are distinct within an owner
Listings == {s \in SeqsUpTo(Names, MaxRepos) : \A i, j \in 1..Len(s) : s[i] = s[j] => i = j}

\* what input() can return at the confirmation prompt (line 14)
Answers == {"y", "Y", "n", "", "yes"}

\* str.lower() on the answers above
Lower(s) == IF s = "Y" THEN "y" ELSE s

\* faulty variant of ask_confirmation: a prompt that defaults to yes
ask_confirmation_default_yes(response, skip_confirmation) ==
    IF skip_confirmation THEN TRUE ELSE Lower(response) # "n"

\* lines 11-15
ask_confirmation(response, skip_confirmation) ==
    IF skip_confirmation THEN TRUE ELSE Lower(response) = "y"

-----------------------------------------------------------------------------
(* HTTP responses and handle_response *)

StatusOK == 200

Resp(status, parses, body) == [status |-> status, parses |-> parses, body |-> body]

Return(v) == [kind |-> "return", value |-> v]
Raise(e) == [kind |-> "raise", value |-> {e}]
NoCall == [op |-> "none", resp |-> Resp(0, FALSE, {}), out |-> Return({})]

\* faulty variant of handle_response: the try of lines 42-45 removed, any
\* failure status raises
handle_response_strict(response) ==
    IF response.status >= 400 THEN Raise("HTTPError")
    ELSE IF response.parses THEN Return(response.body)
    ELSE Raise("JSONDecodeError")

\* lines 38-47: response.json() returns the parsed body or raises;
\* raise_for_status() raises for a status of 400 and above
handle_response(response) ==
    IF response.status # StatusOK
    THEN IF response.parses THEN Return(response.body)
         ELSE IF response.status >= 400 THEN Raise("HTTPError")
         ELSE Raise("JSONDecodeError")
    ELSE IF response.parses THEN Return(response.body)
    ELSE Raise("JSONDecodeError")

\* a server or a proxy in front of it failing without a JSON body
Broken == {Resp(200, FALSE, {}), Resp(302, FALSE, {}), Resp(502, FALSE, {})}

\* GET /api/v1/orgs/{name}
OrgLookupResponses(d) ==
    (IF d.org THEN {Resp(200, TRUE, {"id"})}
     ELSE {Resp(404, TRUE, {"message"}), Resp(404, FALSE, {})})
    \cup Broken

\* POST /api/v1/orgs: 201 and the organization, or an error body
CreateOrgResponses(d) ==
    (IF d.org THEN {Resp(422, TRUE, {"message"})}
     ELSE {Resp(201, TRUE, {"id"}), Resp(403, TRUE, {"message"})})
    \cup Broken

\* GET /api/v1/repos/{owner}/{name}
RepoLookupResponses(d, name) ==
    (IF d.org /\ name \in d.repos THEN {Resp(200, TRUE, {"id"})}
     ELSE {Resp(404, TRUE, {"message"}), Resp(404, FALSE, {})})
    \cup Broken

\* POST /api/v1/repos/migrate: 201 and the repository, or an error body
MigrateResponses(d, name) ==
    (IF d.org /\ name \notin d.repos
     THEN {Resp(201, TRUE, {"id"}), Resp(500, TRUE, {"message"})}
     ELSE {Resp(409, TRUE, {"message"})})
    \cup Broken

\* the server creates what it answers 201 for
Created(response) == response.status = 201

-----------------------------------------------------------------------------
(* State *)

\* end of main(), an early return, an uncaught exception, Ctrl-C
Terminal == {"done", "abort", "crashed", "interrupted"}

Entry(op, name, out) == [op |-> op, name |-> name, out |-> out]
Call(op, resp) == [op |-> op, resp |-> resp, out |-> handle_response(resp)]

Destinations == [org : BOOLEAN, repos : SUBSET Names]

\* a repository exists only under an organization that exists
Consistent(d) == d.org \/ d.repos = {}

InitWith(repositories, start) ==
    /\ pc = start
    /\ run = 1
    /\ firstRun = [end |-> "none", migrations |-> 0]
    /\ args \in ArgChoices(repositories)
    /\ secret \in BOOLEAN
    /\ source \in Listings
    /\ dest \in {d \in Destinations : Consistent(d)}
    /\ dest0 = dest
    /\ user = <<>>
    /\ repolist = <<>>
    /\ index = 1
    /\ result = {}
    /\ answer = None
    /\ last = NoCall
    /\ log = <<>>

Init == InitWith({Alice}, "bootstrap")

-----------------------------------------------------------------------------
(* Steps of main() *)

\* lines 105-128: the stored credential, or the first-run prompts; an empty
\* instance URL or an empty token returns from main()
Bootstrap ==
    /\ pc = "bootstrap"
    /\ \/ /\ secret
          /\ pc' = "resolve_user"
          /\ UNCHANGED secret
       \/ /\ ~secret
          /\ \E instance_url \in {"", "gitea.example"}, token \in {"", "t0k3n"} :
                IF instance_url = "" \/ token = ""
                THEN pc' = "abort" /\ UNCHANGED secret
                ELSE pc' = "resolve_user" /\ secret' = TRUE
    /\ UNCHANGED <<run, firstRun, args, source, dest, dest0, user, repolist,
                   index, result, last, log, answer>>

\* line 131
ResolveUser ==
    /\ pc = "resolve_user"
    /\ user' = string_or_url(args.repository)
    /\ pc' = "list_source"
    /\ UNCHANGED <<run, firstRun, args, secret, source, dest, dest0, repolist,
                   index, result, last, log, answer>>

\* lines 29-33 and 135: the listing, or raise_for_status() ending the run
ListSource ==
    /\ pc = "list_source"
    /\ \E ok \in BOOLEAN :
          IF ok THEN repolist' = source /\ pc' = "get_org"
          ELSE repolist' = repolist /\ pc' = "crashed"
    /\ UNCHANGED <<run, firstRun, args, secret, source, dest, dest0, user,
                   index, result, last, log, answer>>

\* line 139
gitea_org == IF args.organization # None THEN The(args.organization) ELSE user

\* 'id' in result (lines 141, 163)
HasId(r) == "id" \in r

\* line 141: the organization is there
OrganizationExists(r) == HasId(r)

\* faulty variant of RepositoryExists: the test of line 163 inverted
RepositoryExists_inverted(r) == ~HasId(r)

\* line 163: the repository is there
RepositoryExists(r) == HasId(r)

\* faulty variant of HasMessage: the wrong field looked up
HasMessage_error(r) == "error" \in r

\* 'message' in result (lines 149, 167)
HasMessage(r) == "message" \in r

\* lines 138-142, 146
GetOrganization ==
    /\ pc = "get_org"
    /\ \E resp \in OrgLookupResponses(dest) :
          LET c == Call("get_organization", resp) IN
          /\ last' = c
          /\ log' = Append(log, Entry("get_organization", gitea_org, c.out))
          /\ IF c.out.kind = "raise" THEN pc' = "crashed" /\ UNCHANGED result
             ELSE /\ result' = c.out.value
                  /\ pc' = IF OrganizationExists(c.out.value) THEN "confirm" ELSE "create_org"
    /\ UNCHANGED <<run, firstRun, args, secret, source, dest, dest0, user,
                   repolist, index, answer>>

\* lines 143-145: the prompt (not shown when -y is given)
Confirm ==
    /\ pc = "confirm"
    /\ IF args.yes
       THEN /\ pc' = IF ask_confirmation("", TRUE) THEN "loop" ELSE "abort"
            /\ UNCHANGED answer
       ELSE \E response \in Answers :
               /\ answer' = Some(response)
               /\ pc' = IF ask_confirmation(response, FALSE) THEN "loop" ELSE "abort"
    /\ UNCHANGED <<run, firstRun, args, secret, source, dest, dest0, user,
                   repolist, index, result, last, log>>

\* lines 147-151
CreateOrganization ==
    /\ pc = "create_org"
    /\ \E resp \in CreateOrgResponses(dest) :
          LET c == Call("create_organization", resp) IN
          /\ last' = c
          /\ log' = Append(log, Entry("create_organization", gitea_org, c.out))
          /\ dest' = IF Created(resp) THEN [dest EXCEPT !.org = TRUE] ELSE dest
          /\ IF c.out.kind = "raise" THEN pc' = "crashed" /\ UNCHANGED result
             ELSE /\ result' = c.out.value
                  /\ pc' = IF HasMessage(c.out.value) THEN "abort" ELSE "loop"
    /\ UNCHANGED <<run, firstRun, args, secret, source, dest0, user,
                   repolist, index, answer>>

\* line 157
IncludeSkips(name) ==
    args.include # None /\ ~re_match(The(args.include), name)

\* faulty variant of ExcludeSkips: negated like the include test
ExcludeSkips_inverted(name) ==
    args.exclude # None /\ ~re_match(The(args.exclude), name)

\* line 160
ExcludeSkips(name) ==
    args.exclude # None /\ re_match(The(args.exclude), name)

\* lines 154-162: the next item of the for loop and its two filters
NextRepository ==
    /\ pc = "loop"
    /\ IF index > Len(repolist)
       THEN pc' = "done" /\ UNCHANGED index
       ELSE IF IncludeSkips(repolist[index]) \/ ExcludeSkips(repolist[index])
       THEN pc' = "loop" /\ index' = index + 1
       ELSE pc' = "get_repo" /\ UNCHANGED index
    /\ UNCHANGED <<run, firstRun, args, secret, source, dest, dest0, user,
                   repolist, result, last, log, answer>>

\* lines 163-165
CheckRepository ==
    /\ pc = "get_repo"
    /\ \E resp \in RepoLookupResponses(dest, repolist[index]) :
          LET c == Call("get_repository", resp) IN
          /\ last' = c
          /\ log' = Append(log, Entry("get_repository", repolist[index], c.out))
          /\ IF c.out.kind = "raise"
             THEN pc' = "crashed" /\ UNCHANGED <<result, index>>
             ELSE /\ result' = c.out.value
                  /\ IF RepositoryExists(c.out.value)
                     THEN pc' = "loop" /\ index' = index + 1
                     ELSE pc' = "migrate" /\ UNCHANGED index
    /\ UNCHANGED <<run, firstRun, args, secret, source, dest, dest0, user, repolist, answer>>

\* lines 166-169
Migrate ==
    /\ pc = "migrate"
    /\ \E resp \in MigrateResponses(dest, repolist[index]) :
          LET c == Call("migrate_repository", resp) IN
          /\ last' = c
          /\ log' = Append(log, Entry("migrate_repository", repolist[index], c.out))
          /\ dest' = IF Created(resp)
                     THEN [dest EXCEPT !.repos = @ \cup {repolist[index]}]
                     ELSE dest
          /\ IF c.out.kind = "raise" THEN pc' = "crashed" /\ UNCHANGED result
             ELSE /\ result' = c.out.value
                  /\ pc' = IF HasMessage(c.out.value) THEN "abort" ELSE "sleep"
    /\ UNCHANGED <<run, firstRun, args, secret, source, dest0, user, repolist, index, answer>>

PaceSeconds == 1

\* faulty variant of Sleep: the loop without its pause
Sleep_removed ==
    /\ pc = "sleep"
    /\ index' = index + 1
    /\ pc' = "loop"
    /\ UNCHANGED <<run, firstRun, args, secret, source, dest, dest0, user,
                   repolist, result, last, answer, log>>

\* line 170, then the next iteration
Sleep ==
    /\ pc = "sleep"
    /\ log' = Append(log, Entry("sleep", repolist[index], Return({PaceSeconds})))
    /\ index' = index + 1
    /\ pc' = "loop"
    /\ UNCHANGED <<run, firstRun, args, secret, source, dest, dest0, user,
                   repolist, result, last, answer>>

\* lines 174-177: KeyboardInterrupt between two steps ends the process silently
Interrupt ==
    /\ pc \notin Terminal
    /\ pc' = "interrupted"
    /\ UNCHANGED <<run, firstRun, args, secret, source, dest, dest0, user,
                   repolist, index, result, answer, last, log>>

\* the tool started again with the same command line, against the source as
\* it is and the destination as the first invocation left it
Rerun ==
    /\ pc \in Terminal
    /\ run = 1
    /\ run' = 2
    /\ firstRun' = [end |-> pc,
                    migrations |-> Cardinality({i \in 1..Len(log) :
                                                  log[i].op = "migrate_repository"})]
    /\ pc' = "bootstrap"
    /\ dest0' = dest
    /\ user' = <<>>
    /\ repolist' = <<>>
    /\ index' = 1
    /\ result' = {}
    /\ answer' = None
    /\ last' = NoCall
    /\ log' = <<>>
    /\ UNCHANGED <<args, secret, source, dest>>

Next ==
    \/ Bootstrap
    \/ ResolveUser
    \/ ListSource
    \/ GetOrganization
    \/ Confirm
    \/ CreateOrganization
    \/ NextRepository
    \/ CheckRepository
    \/ Migrate
    \/ Sleep
    \/ Interrupt
    \/ Rerun

Spec == Init /\ [][Next]_vars

\* string_or_url alone, over many command-line arguments
Prefixes == {<<>>, Http, Https, <<"h", "t", "t", "p", ":", "/">>,
             <<"f", "t", "p", ":", "/", "/">>, <<"H", "t", "t", "p", ":", "/", "/">>}

Repositories == {p \o t : p \in Prefixes, t \in SeqsUpTo({"a", "b", "/"}, MaxTail)}

InitOwner == InitWith(Repositories, "resolve_user") /\ secret /\ source = <<>>
             /\ dest.repos = {} /\ args.include = None /\ args.exclude = None

NextOwner == ResolveUser

SpecOwner == InitOwner /\ [][NextOwner]_vars

-----------------------------------------------------------------------------
(* What the claims speak of *)

Indices(op) == {i \in 1..Len(log) : log[i].op = op}
Returned(e) == e.out.kind = "return"
WithId(e) == Returned(e) /\ "id" \in e.out.value
WithoutId(e) == Returned(e) /\ "id" \notin e.out.value
WithMessage(e) == Returned(e) /\ "message" \in e.out.value
NoMigration == Indices("migrate_repository") = {}
NoRepositoryCall == NoMigration /\ Indices("get_repository") = {}

\* a name the active filter rejects
FilteredOut(n) ==
    \/ \E p \in args.include : ~re_match(p, n)
    \/ \E p \in args.exclude : re_match(p, n)

\* the user was asked and answered anything but y or Y
Declined == \E a \in answer : a \notin {"y", "Y"}

\* C1: a repository is migrated at most once per run, and every migration
\* call comes right after an existence check of the same repository that
\* returned a result without 'id', the repository being absent from the
\* destination at that moment.
C1_MigratedOnceAfterFailedCheck ==
    /\ \A i, j \in Indices("migrate_repository") : log[i].name = log[j].name => i = j
    /\ \A i \in Indices("migrate_repository") :
          /\ i > 1
          /\ log[i - 1].op = "get_repository"
          /\ log[i - 1].name = log[i].name
          /\ WithoutId(log[i - 1])
    /\ pc = "migrate" => repolist[index] \notin dest.repos

C1_Witness ==
    /\ pc = "done"
    /\ Cardinality(Indices("migrate_repository")) = 2
    /\ dest.repos # dest0.repos

\* C2: a migration call that returns a result with 'message' is the last
\* call of the run: the run is aborted, with no later existence check, no
\* later migration and no pacing delay.
C2_MigrationErrorStops ==
    \A i \in Indices("migrate_repository") :
        WithMessage(log[i]) => i = Len(log) /\ pc = "abort"

C2_Witness ==
    /\ pc = "abort"
    /\ Len(log) > 0
    /\ log[Len(log)].op = "migrate_repository"
    /\ WithMessage(log[Len(log)])
    /\ index < Len(repolist)
    /\ ~FilteredOut(repolist[index + 1])

\* C3: when get_organization returned a result with 'id', -y was not given
\* and the user declined, the run is aborted and has issued no existence
\* check and no migration call.
C3_DeclinedNeverMigrates ==
    (/\ \E i \in Indices("get_organization") : WithId(log[i])
     /\ ~args.yes
     /\ Declined)
    => pc = "abort" /\ NoRepositoryCall

C3_Witness ==
    /\ pc = "abort"
    /\ Declined
    /\ ~args.yes
    /\ \E i \in 1..Len(repolist) :
          ~FilteredOut(repolist[i]) /\ repolist[i] \notin dest.repos

\* C4: no existence check and no migration call is ever issued for a
\* repository the active filter rejects, and the step main() takes at such a
\* repository goes to the next one without any call.
C4_FilteredNeverTouched ==
    /\ [](\A i \in Indices("get_repository") \cup Indices("migrate_repository") :
             ~FilteredOut(log[i].name))
    /\ [][(pc = "loop" /\ index <= Len(repolist) /\ FilteredOut(repolist[index])
            /\ pc' # "interrupted")
            => (pc' = "loop" /\ index' = index + 1 /\ log' = log /\ dest' = dest)]_vars

C4_Witness ==
    /\ pc = "done"
    /\ \E i \in 1..Len(repolist) : FilteredOut(repolist[i])
    /\ ~NoMigration

\* C5: a repository whose existence check returned a result with 'id' gets
\* no migration call, and the step that received that result goes on to the
\* next repository of the list instead of ending the run.
C5_ExistingSkipped ==
    /\ [](\A i \in Indices("get_repository") : \A j \in Indices("migrate_repository") :
             WithId(log[i]) => log[j].name # log[i].name)
    /\ [][(pc = "get_repo" /\ log' # log /\ Returned(last')
            /\ "id" \in last'.out.value)
            => (pc' = "loop" /\ index' = index + 1 /\ dest' = dest)]_vars

C5_Witness ==
    /\ pc = "done"
    /\ Len(log) > 2
    /\ WithId(log[2])
    /\ log[2].op = "get_repository"
    /\ ~NoMigration

\* C6 as stated, for a first run that got as far as requesting a migration
\* and ended by itself: the second of two runs in succession issues no
\* migration call.
C6_SecondRunNeverMigrates ==
    (run = 2 /\ firstRun.end \in {"done", "abort"} /\ firstRun.migrations > 0)
    => NoMigration

\* C6 amended: when the first run went through its whole list (it ended
\* neither aborted nor by an exception), the second run issues no migration
\* call, and every existence check of it that returns, returns 'id'.
C6_SecondRunAfterCompleteRun ==
    (run = 2 /\ firstRun.end = "done") =>
        /\ NoMigration
        /\ \A i \in Indices("get_repository") : Returned(log[i]) => WithId(log[i])

C6_Witness ==
    /\ run = 2
    /\ firstRun.end = "done"
    /\ firstRun.migrations = 2
    /\ pc = "done"
    /\ Cardinality({i \in Indices("get_repository") : WithId(log[i])}) = 2

\* the calls of a run that creates the organization and migrates every
\* repository of the listing, in the listed order
RECURSIVE MigrateAll(_)
MigrateAll(list) ==
    IF list = <<>> THEN <<>>
    ELSE << <<"get_repository", Head(list)>>,
            <<"migrate_repository", Head(list)>>,
            <<"sleep", Head(list)>> >> \o MigrateAll(Tail(list))

FullRun == << <<"get_organization", gitea_org>>, <<"create_organization", gitea_org>> >>
           \o MigrateAll(source)

Issued == [i \in 1..Len(log) |-> <<log[i].op, log[i].name>>]

\* the case of C7: organization absent, no filter, no listed repository at
\* the destination when the run starts
FreshDestination ==
    /\ ~dest0.org
    /\ args.include = None
    /\ args.exclude = None
    /\ \A i \in 1..Len(source) : source[i] \notin dest0.repos

\* C7 as stated: in that case a run that got its listing and its
\* organization, and ended without an exception, has migrated every listed
\* repository.
C7_AlwaysMigratesAll ==
    (/\ FreshDestination
     /\ pc \in {"done", "abort"}
     /\ \E i \in Indices("create_organization") : WithId(log[i]))
    => Issued = FullRun

\* C7 amended: in that case the calls issued so far are always a prefix of:
\* organization lookup, organization creation, then per listed repository
\* in listed order an existence check, one migration call and a 1-second
\* pause; and a run in which the listing, the creation and every migration
\* succeed (one that reaches the end of the list) has issued all of them.
C7_MigratesAllWhenNothingFails ==
    FreshDestination =>
        /\ Len(Issued) <= Len(FullRun)
        /\ Issued = SubSeq(FullRun, 1, Len(Issued))
        /\ \A i \in Indices("sleep") : log[i].out.value = {1}
        /\ pc = "done" => Issued = FullRun

C7_Witness ==
    /\ FreshDestination
    /\ pc = "done"
    /\ Len(source) = 2
    /\ Issued = FullRun
    /\ dest.repos = {source[1], source[2]}

\* positions of the slashes of a string
Slashes(s) == {i \in 1..Len(s) : s[i] = "/"}
Max(S) == CHOOSE x \in S : \A y \in S : y <= x

\* the text between the last two slashes
BetweenLastTwoSlashes(s) ==
    LET j == Max(Slashes(s))
        i == Max(Slashes(s) \ {j})
    IN  SubSeq(s, i + 1, j - 1)

\* C8: once the owner is resolved, it is the second-to-last slash-delimited
\* segment of the argument when the argument starts with http:// or
\* https://, and the argument itself otherwise.
C8_OwnerFromArgument ==
    pc # "resolve_user" =>
        IF StartsWith(args.repository, Http) \/ StartsWith(args.repository, Https)
        THEN user = BetweenLastTwoSlashes(args.repository)
        ELSE user = args.repository

C8_Witness ==
    /\ pc = "list_source"
    /\ StartsWith(args.repository, Https)
    /\ Cardinality(Slashes(args.repository)) = 4
    /\ user = <<"a">>

\* C9: the organization is created only right after a lookup that returned
\* a result without 'id', and a creation that returns a result with
\* 'message' is the last call of the run: the run is aborted with no
\* existence check and no migration call.
C9_CreationOnlyWhenAbsentAndFatal ==
    \A i \in Indices("create_organization") :
        /\ i = 2
        /\ log[1].op = "get_organization"
        /\ WithoutId(log[1])
        /\ WithMessage(log[i]) => (Len(log) = 2 /\ pc = "abort" /\ NoRepositoryCall)

C9_Witness ==
    /\ pc = "abort"
    /\ Len(log) = 2
    /\ log[2].op = "create_organization"
    /\ WithMessage(log[2])
    /\ Len(repolist) > 0
    /\ ~FilteredOut(repolist[1])

\* C10: a destination call whose response body parses returns that body,
\* whatever the status, so a failure status with a JSON body comes back as
\* a result; a call raises only when the body does not parse.
C10_FailureIsReturned ==
    last.op # "none" =>
        /\ last.resp.parses => last.out = [kind |-> "return", value |-> last.resp.body]
        /\ last.out.kind = "raise" => ~last.resp.parses

C10_Witness ==
    /\ last.op = "migrate_repository"
    /\ last.resp.status >= 400
    /\ last.resp.parses
    /\ last.out.kind = "return"
    /\ "message" \in last.out.value

====
